---- MODULE Spec2Model ----
(***************************************************************************)
(* Inventory reservation and order fulfilment of the commerce service:     *)
(* InventoryService (the ledger), CartService (cart and reservation keys   *)
(* in Redis), OrderService (checkout, status transitions, cancellation),   *)
(* ReturnService and the admin/staff order endpoints.                      *)
(*                                                                         *)
(* Every request runs in its own SQLAlchemy session (get_db).  The rows of *)
(* a session are committed by Session.commit(); the committed tables are   *)
(* the variables inv and orders, the Redis keys are carts and resv.        *)
(***************************************************************************)
EXTENDS Integers, Sequences, FiniteSets, TLC

\* ------------------------------------------------------------------ bounds
MaxQty == 3        \* largest stock level / reserved level explored
MaxArg == 3        \* largest magnitude of an integer argument of a ledger call
MaxOrders == 2     \* orders created in one behaviour
InitStock == 2     \* units of every SKU stocked before the first request
MaxReqs == 3       \* service requests started in one behaviour
MaxAge == 960      \* seconds a reservation key is followed after it was written
MaxTrack == 2      \* order_tracking rows followed per order

\* ------------------------------------------------------------ catalogue
\* Two products; P1 has two variants (SKUs), P2 has one.
Products == {"P1", "P2"}
SKUs == {"S1", "S2", "S3"}
ProductOf(s) == IF s = "S3" THEN "P2" ELSE "P1"
NoSku == "none"            \* a sku for which no inventory row exists
Shoppers == {"u1", "u2"}
Procs == {1, 2}            \* concurrently served requests

Max(a, b) == IF a >= b THEN a ELSE b
Min(a, b) == IF a <= b THEN a ELSE b

VARIABLES
    inv,       \* committed inventory rows: sku -> [quantity, reserved_quantity]
    carts,     \* Redis cart:{user}: the list of cart items
    resv,      \* Redis cart:reservation:{user}:{product}: the value, the seconds
               \* the key has left to live and its age, or NoResv
    totals,    \* Redis cart:{user}: subtotal, discount, promo_code and total
    orders,    \* committed orders rows (with their order_items)
    returns,   \* committed return_requests rows: order id -> ReturnStatus or "none"
    tracking,  \* committed order_tracking rows: order id -> the statuses of
               \* its entries, oldest first
    pc,        \* position of each request in its handler
    req,       \* arguments of the request each process serves
    lcart,     \* the cart dict a handler read with get_cart
    idx,       \* loop index of a handler iterating over cart / order items
    sess,      \* Inventory object loaded in the request's session, or Unloaded
    lord,      \* Order object loaded in the request's session
    pend,      \* the order of the running create_order: [id, items]
    result,    \* outcome of the request
    pre,       \* inventory rows as they were when the request started
    nreq,      \* number of service requests started so far
    last       \* the last ledger / order call that completed, with its outcome

vars == <<inv, carts, resv, totals, orders, returns, tracking, pc, req, lcart, idx, sess, lord,
          pend, result, pre, nreq, last>>

\* ----------------------------------------------------------- Inventory row
Row(q, r) == [quantity |-> q, reserved_quantity |-> r]

\* Inventory.available_quantity
available_quantity(rec) == Max(0, rec.quantity - rec.reserved_quantity)

\* Body of reserve_stock on the Inventory object `rec` of the session.
reserve_rejects(rec, quantity) == available_quantity(rec) < quantity
reserve_stock(rec, quantity) == [rec EXCEPT !.reserved_quantity = @ + quantity]

\* Body of release_stock.
release_unclamped(rec, quantity) == [rec EXCEPT !.reserved_quantity = @ - quantity]
release_stock(rec, quantity) ==
    [rec EXCEPT !.reserved_quantity = Max(0, @ - quantity)]

\* Body of confirm_reservation.
confirm_keeps_reserved(rec, quantity) ==
    Row(Max(0, rec.quantity - quantity), rec.reserved_quantity)
confirm_reservation(rec, quantity) ==
    Row(Max(0, rec.quantity - quantity), Max(0, rec.reserved_quantity - quantity))

\* Body of adjust_stock: the only rejection is a negative new quantity.
adjust_rejects(rec, adjustment) == rec.quantity + adjustment < 0
adjust_stock(rec, adjustment) == [rec EXCEPT !.quantity = @ + adjustment]

\* The staff adjust-stock endpoint of the admin service: never rejects, the
\* new quantity is max(0, quantity + adjustment).
staff_adjust_stock(rec, adjustment) ==
    [rec EXCEPT !.quantity = Max(0, @ + adjustment)]

\* Body of update_inventory: setattr of every field that was sent.
\* `fields` are the keys of model_dump(exclude_unset=True).
update_inventory(rec, fields, q, r) ==
    Row(IF "quantity" \in fields THEN q ELSE rec.quantity,
        IF "reserved_quantity" \in fields THEN r ELSE rec.reserved_quantity)

\* Session.commit(): the UPDATE carries the attributes whose value differs
\* from the one the session loaded; the other columns keep the table's value.
Flush(dbrec, loaded, new) ==
    Row(IF new.quantity # loaded.quantity THEN new.quantity ELSE dbrec.quantity,
        IF new.reserved_quantity # loaded.reserved_quantity
           THEN new.reserved_quantity ELSE dbrec.reserved_quantity)

InBounds(rec) ==
    /\ rec.quantity \in -MaxQty..MaxQty
    /\ rec.reserved_quantity \in -MaxQty..MaxQty

\* ------------------------------------------------------- idle request state
NoResv == [sku |-> NoSku, quantity |-> 0, ttl |-> 0, age |-> 0]
\* CartService.RESERVATION_TTL
RESERVATION_TTL == 900
\* The expires_in that add_to_cart and confirm_cart_for_checkout pass to
\* set_cache: int(RESERVATION_TTL / 60).
reservation_expires_in == RESERVATION_TTL \div 60
\* set_cache(key, value, expires_in) is SETEX key expires_in value: the key
\* lives expires_in seconds.
set_cache(value, expires_in) ==
    [sku |-> value.sku, quantity |-> value.quantity, ttl |-> expires_in, age |-> 0]
\* The reservation add_to_cart and confirm_cart_for_checkout store.
Reservation(sku, quantity) ==
    set_cache([sku |-> sku, quantity |-> quantity], reservation_expires_in)
\* get_cache finds the key.
Live(e) == e.ttl > 0
Unloaded == [sku |-> NoSku, row |-> Row(0, 0)]
NoReq == [op |-> "none", user |-> "u1", product |-> "P1", sku |-> NoSku,
          quantity |-> 0, order |-> 0, status |-> "none", promo |-> FALSE]
Item(product, sku, quantity) ==
    [product_id |-> product, sku |-> sku, quantity |-> quantity]
\* An Order row as create_order inserts it; the *_at columns are NULL (FALSE)
\* until a status change stamps them.
Order(user, items) ==
    [user_id |-> user, status |-> "pending", items |-> items,
     shipped_at |-> FALSE, delivered_at |-> FALSE, cancelled_at |-> FALSE]
NoOrder == Order("u1", <<>>)
NoPend == [id |-> 0, items |-> <<>>]
NoLast == [op |-> "none", sku |-> NoSku, quantity |-> 0,
           before |-> Row(0, 0), outcome |-> "none"]

\* The cart get_cart returns when the key is missing.
EmptyTotals == [subtotal |-> 0, discount |-> 0, promo_code |-> "none", total |-> 0]

\* product.price, copied into the cart line when the line is created.
Price(product) == IF product = "P1" THEN 2 ELSE 3

RECURSIVE Subtotal(_)
Subtotal(items) ==
    IF items = <<>> THEN 0
    ELSE Price(Head(items).product_id) * Head(items).quantity + Subtotal(Tail(items))

\* The "Recalculate" lines of add_to_cart, update_quantity and
\* remove_from_cart: subtotal from the lines, total = subtotal - discount.
recalculate(items, t) ==
    [t EXCEPT !.subtotal = Subtotal(items),
              !.total = Subtotal(items) - t.discount]

\* apply_promotion, lines 264-266: the subtotal is kept as stored and the
\* total is not allowed below 0.
apply_promotion(t, promo_code, discount_amount) ==
    [t EXCEPT !.promo_code = promo_code,
              !.discount = discount_amount,
              !.total = Max(0, t.subtotal - discount_amount)]

InitStore ==
    /\ inv = [s \in SKUs |-> Row(InitStock, 0)]
    /\ carts = [u \in Shoppers |-> <<>>]
    /\ totals = [u \in Shoppers |-> EmptyTotals]
    /\ resv = [u \in Shoppers |-> [p \in Products |-> NoResv]]
    /\ orders = <<>>
    /\ returns = [o \in 1..MaxOrders |-> "none"]
    /\ tracking = [o \in 1..MaxOrders |-> <<>>]

InitProcs ==
    /\ pc = [p \in Procs |-> "idle"]
    /\ req = [p \in Procs |-> NoReq]
    /\ lcart = [p \in Procs |-> <<>>]
    /\ idx = [p \in Procs |-> 0]
    /\ sess = [p \in Procs |-> Unloaded]
    /\ lord = [p \in Procs |-> NoOrder]
    /\ pend = [p \in Procs |-> NoPend]
    /\ result = [p \in Procs |-> "none"]
    /\ pre = [p \in Procs |-> [s \in SKUs |-> Row(0, 0)]]
    /\ nreq = 0
    /\ last = NoLast

procVars == <<pc, req, lcart, idx, sess, lord, pend, result, pre, nreq>>
orderVars == <<orders, returns, tracking>>
redisVars == <<carts, resv, totals>>

\* ======================================================================
\* The ledger called directly: every call is one InventoryService method on
\* a session of its own.  reserve_stock, release_stock and
\* confirm_reservation read the row with SELECT ... FOR UPDATE and commit
\* before anything else runs, so a call is one step.
\* ======================================================================
Called(op, sku, quantity, outcome) ==
    [op |-> op, sku |-> sku, quantity |-> quantity,
     before |-> IF sku \in SKUs THEN inv[sku] ELSE Row(0, 0),
     outcome |-> outcome]

LedgerSkus == {"S1", NoSku}
Args == -MaxArg..MaxArg

LedgerReserve(sku, quantity) ==
    /\ IF sku \notin SKUs
         THEN /\ last' = Called("reserve", sku, quantity, "not_found")
              /\ UNCHANGED inv
         ELSE IF reserve_rejects(inv[sku], quantity)
         THEN /\ last' = Called("reserve", sku, quantity, "insufficient")
              /\ UNCHANGED inv
         ELSE /\ InBounds(reserve_stock(inv[sku], quantity))
              /\ inv' = [inv EXCEPT ![sku] = reserve_stock(inv[sku], quantity)]
              /\ last' = Called("reserve", sku, quantity, "ok")
    /\ UNCHANGED <<redisVars, orderVars, procVars>>

LedgerRelease(sku, quantity) ==
    /\ IF sku \notin SKUs
         THEN /\ last' = Called("release", sku, quantity, "false")
              /\ UNCHANGED inv
         ELSE /\ InBounds(release_stock(inv[sku], quantity))
              /\ inv' = [inv EXCEPT ![sku] = release_stock(inv[sku], quantity)]
              /\ last' = Called("release", sku, quantity, "ok")
    /\ UNCHANGED <<redisVars, orderVars, procVars>>

LedgerConfirm(sku, quantity) ==
    /\ IF sku \notin SKUs
         THEN /\ last' = Called("confirm", sku, quantity, "false")
              /\ UNCHANGED inv
         ELSE /\ InBounds(confirm_reservation(inv[sku], quantity))
              /\ inv' = [inv EXCEPT ![sku] = confirm_reservation(inv[sku], quantity)]
              /\ last' = Called("confirm", sku, quantity, "ok")
    /\ UNCHANGED <<redisVars, orderVars, procVars>>

LedgerAdjust(sku, adjustment) ==
    /\ IF sku \notin SKUs
         THEN /\ last' = Called("adjust", sku, adjustment, "not_found")
              /\ UNCHANGED inv
         ELSE IF adjust_rejects(inv[sku], adjustment)
         THEN /\ last' = Called("adjust", sku, adjustment, "negative")
              /\ UNCHANGED inv
         ELSE /\ InBounds(adjust_stock(inv[sku], adjustment))
              /\ inv' = [inv EXCEPT ![sku] = adjust_stock(inv[sku], adjustment)]
              /\ last' = Called("adjust", sku, adjustment, "ok")
    /\ UNCHANGED <<redisVars, orderVars, procVars>>

LedgerStaffAdjust(sku, adjustment) ==
    /\ IF sku \notin SKUs
         THEN /\ last' = Called("staff_adjust", sku, adjustment, "not_found")
              /\ UNCHANGED inv
         ELSE /\ InBounds(staff_adjust_stock(inv[sku], adjustment))
              /\ inv' = [inv EXCEPT ![sku] = staff_adjust_stock(inv[sku], adjustment)]
              /\ last' = Called("staff_adjust", sku, adjustment, "ok")
    /\ UNCHANGED <<redisVars, orderVars, procVars>>

LedgerUpdate(sku, fields, q, r) ==
    /\ IF sku \notin SKUs
         THEN /\ last' = Called("update", sku, 0, "not_found")
              /\ UNCHANGED inv
         ELSE /\ inv' = [inv EXCEPT ![sku] = update_inventory(inv[sku], fields, q, r)]
              /\ last' = Called("update", sku, 0, "ok")
    /\ UNCHANGED <<redisVars, orderVars, procVars>>

InitLedger == InitStore /\ InitProcs

NextLedger ==
    \/ \E sku \in LedgerSkus, quantity \in Args : LedgerReserve(sku, quantity)
    \/ \E sku \in LedgerSkus, quantity \in Args : LedgerRelease(sku, quantity)
    \/ \E sku \in LedgerSkus, quantity \in Args : LedgerConfirm(sku, quantity)
    \/ \E sku \in LedgerSkus, adjustment \in Args : LedgerAdjust(sku, adjustment)
    \/ \E sku \in LedgerSkus, adjustment \in Args : LedgerStaffAdjust(sku, adjustment)
    \/ \E sku \in LedgerSkus, fields \in SUBSET {"quantity", "reserved_quantity"},
          q \in Args, r \in Args :
          LedgerUpdate(sku, fields, q, r)

SpecLedger == InitLedger /\ [][NextLedger]_vars

\* ======================================================================
\* Requests.  A process serves one request at a time: it starts a handler
\* when idle, reaches "done" with the outcome, and is idle again once the
\* response is out and get_db has closed the session.
\* ======================================================================
AtRest(p) == pc[p] = "idle"

Begin(p, r) ==
    /\ AtRest(p)
    /\ nreq < MaxReqs
    /\ nreq' = nreq + 1
    /\ req' = [req EXCEPT ![p] = r]
    /\ pre' = [pre EXCEPT ![p] = inv]

Goto(p, l) == pc' = [pc EXCEPT ![p] = l] /\ result' = [result EXCEPT ![p] = "none"]
Step(p, l) == pc' = [pc EXCEPT ![p] = l] /\ UNCHANGED result
Finish(p, res) ==
    /\ pc' = [pc EXCEPT ![p] = "done"]
    /\ result' = [result EXCEPT ![p] = res]

\* get_db, finally: db.close(); the request's objects are gone.
Retire(p) ==
    /\ pc[p] = "done"
    /\ pc' = [pc EXCEPT ![p] = "idle"]
    /\ req' = [req EXCEPT ![p] = NoReq]
    /\ lcart' = [lcart EXCEPT ![p] = <<>>]
    /\ idx' = [idx EXCEPT ![p] = 0]
    /\ sess' = [sess EXCEPT ![p] = Unloaded]
    /\ lord' = [lord EXCEPT ![p] = NoOrder]
    /\ pend' = [pend EXCEPT ![p] = NoPend]
    /\ result' = [result EXCEPT ![p] = "none"]
    /\ pre' = [pre EXCEPT ![p] = [s \in SKUs |-> Row(0, 0)]]
    /\ UNCHANGED <<inv, redisVars, orderVars, nreq, last>>

\* ======================================================================
\* Order status: OrderService.update_order_status and cancel_order,
\* ReturnService, and the admin / staff endpoints of the admin service.
\* ======================================================================
Statuses == {"pending", "confirmed", "processing", "shipped", "delivered",
             "cancelled", "returned", "refunded"}

\* valid_transitions of update_order_status, extended wrongly by one edge.
valid_transitions_skip(s) ==
    CASE s = "pending" -> {"confirmed", "cancelled", "shipped"}
      [] s = "confirmed" -> {"processing", "cancelled"}
      [] s = "processing" -> {"shipped"}
      [] s = "shipped" -> {"delivered"}
      [] s = "delivered" -> {"returned"}
      [] s = "cancelled" -> {}
      [] s = "returned" -> {"refunded"}
      [] s = "refunded" -> {}

\* valid_transitions of update_order_status.
valid_transitions(s) ==
    CASE s = "pending" -> {"confirmed", "cancelled"}
      [] s = "confirmed" -> {"processing", "cancelled"}
      [] s = "processing" -> {"shipped"}
      [] s = "shipped" -> {"delivered"}
      [] s = "delivered" -> {"returned"}
      [] s = "cancelled" -> {}
      [] s = "returned" -> {"refunded"}
      [] s = "refunded" -> {}

\* The attributes update_order_status assigns on the loaded Order.
stamp(o, new_status) ==
    [o EXCEPT !.status = new_status,
              !.shipped_at = IF new_status = "shipped" THEN TRUE ELSE @,
              !.delivered_at = IF new_status = "delivered" THEN TRUE ELSE @,
              !.cancelled_at = IF new_status = "cancelled" THEN TRUE ELSE @]

\* Session.commit() of an Order: the UPDATE carries the assigned columns.
FlushOrder(dbrow, loaded, new) ==
    [dbrow EXCEPT
       !.status = IF new.status # loaded.status THEN new.status ELSE @,
       !.shipped_at = IF new.shipped_at # loaded.shipped_at THEN new.shipped_at ELSE @,
       !.delivered_at = IF new.delivered_at # loaded.delivered_at
                           THEN new.delivered_at ELSE @,
       !.cancelled_at = IF new.cancelled_at # loaded.cancelled_at
                           THEN new.cancelled_at ELSE @]

OrderIds == 1..MaxOrders

\* An order_tracking row is its status; add_tracking_entry inserts one row
\* for the order and commits.  Rows are never updated or deleted by any
\* statement of the services.
add_tracking_entry(tr, order_id, status) ==
    [tr EXCEPT ![order_id] = Append(@, status)]

\* The history of one order is followed for MaxTrack entries.
CanTrack(o) == Len(tracking[o]) < MaxTrack

\* update_order_status, lines 200-206: the order is loaded into the session.
TransitionLoad(p, o, new_status) ==
    /\ Begin(p, [NoReq EXCEPT !.op = "transition", !.order = o, !.status = new_status])
    /\ CanTrack(o)
    /\ IF o \in DOMAIN orders
         THEN /\ lord' = [lord EXCEPT ![p] = orders[o]]
              /\ Goto(p, "tr_write")
         ELSE /\ lord' = [lord EXCEPT ![p] = NoOrder]
              /\ Finish(p, "not_found")
    /\ sess' = [sess EXCEPT ![p] = Unloaded]
    /\ UNCHANGED <<inv, redisVars, orderVars, lcart, idx, pend, last>>

\* update_order_status, lines 208-244: validate, assign, commit; the
\* endpoint (commerce/main.py, lines 1120-1148) then adds the tracking
\* entry for the new status.
TransitionWrite(p) ==
    /\ pc[p] = "tr_write"
    /\ LET o == req[p].order
           new_status == req[p].status
       IN IF new_status \notin valid_transitions(lord[p].status)
            THEN /\ Finish(p, "invalid_transition")
                 /\ UNCHANGED <<orders, tracking>>
            ELSE /\ orders' = [orders EXCEPT
                       ![o] = FlushOrder(@, lord[p], stamp(lord[p], new_status))]
                 /\ tracking' = add_tracking_entry(tracking, o, new_status)
                 /\ Finish(p, "ok")
    /\ UNCHANGED <<inv, redisVars, returns, req, lcart, idx, sess, lord, pend, pre, nreq, last>>

\* cancel_order, lines 251-264: load the user's order, check it is cancellable.
CancelLoad(p, o, user) ==
    /\ Begin(p, [NoReq EXCEPT !.op = "cancel", !.order = o, !.user = user,
                              !.status = "cancelled"])
    /\ IF o \notin DOMAIN orders \/ (o \in DOMAIN orders /\ orders[o].user_id # user)
         THEN /\ lord' = [lord EXCEPT ![p] = NoOrder]
              /\ idx' = [idx EXCEPT ![p] = 0]
              /\ Finish(p, "not_found")
         ELSE /\ lord' = [lord EXCEPT ![p] = orders[o]]
              /\ IF orders[o].status \notin {"pending", "confirmed"}
                   THEN /\ idx' = [idx EXCEPT ![p] = 0]
                        /\ Finish(p, "not_cancellable")
                   ELSE /\ idx' = [idx EXCEPT ![p] = 1]
                        /\ Goto(p, IF orders[o].items = <<>> THEN "cx_status"
                                                              ELSE "cx_read")
    /\ sess' = [sess EXCEPT ![p] = Unloaded]
    /\ UNCHANGED <<inv, redisVars, orderVars, lcart, pend, last>>

\* adjust_stock, line 76, called by cancel_order for item idx: the row is
\* read without a lock.
CancelAdjustRead(p) ==
    /\ pc[p] = "cx_read"
    /\ LET item == lord[p].items[idx[p]]
       IN sess' = [sess EXCEPT ![p] = [sku |-> item.sku, row |-> inv[item.sku]]]
    /\ Step(p, "cx_write")
    /\ UNCHANGED <<inv, redisVars, orderVars, req, lcart, idx, lord, pend, pre, nreq, last>>

\* adjust_stock, lines 83-93, then the next item of cancel_order's loop; an
\* exception of adjust_stock is recorded in failed_restores and dropped.
CancelAdjustWrite(p) ==
    /\ pc[p] = "cx_write"
    /\ LET item == lord[p].items[idx[p]]
           row == sess[p].row
       IN IF adjust_rejects(row, item.quantity)
            THEN UNCHANGED inv
            ELSE /\ InBounds(adjust_stock(row, item.quantity))
                 /\ inv' = [inv EXCEPT ![item.sku] =
                               Flush(@, row, adjust_stock(row, item.quantity))]
    /\ sess' = [sess EXCEPT ![p] = Unloaded]
    /\ idx' = [idx EXCEPT ![p] = @ + 1]
    /\ Step(p, IF idx[p] = Len(lord[p].items) THEN "cx_status" ELSE "cx_read")
    /\ UNCHANGED <<redisVars, orderVars, req, lcart, lord, pend, pre, nreq, last>>

\* cancel_order, lines 280-288.
CancelStatus(p) ==
    /\ pc[p] = "cx_status"
    /\ orders' = [orders EXCEPT ![req[p].order] =
                     [@ EXCEPT !.status = "cancelled", !.cancelled_at = TRUE]]
    /\ Finish(p, "ok")
    /\ UNCHANGED <<inv, redisVars, returns, tracking, req, lcart, idx, sess, lord, pend, pre, nreq, last>>

\* ---- ReturnService: every method is a read, a check and one commit.
create_return(o, user) ==
    /\ o \in DOMAIN orders
    /\ orders[o].user_id = user
    /\ IF orders[o].status \notin {"delivered", "shipped"}
         THEN UNCHANGED returns
         ELSE IF returns[o] # "none"
         THEN UNCHANGED returns
         ELSE /\ returns' = [returns EXCEPT ![o] = "requested"]
    /\ UNCHANGED <<inv, redisVars, orders, tracking, procVars, last>>

approve_return(o) ==
    /\ returns[o] = "requested"
    /\ returns' = [returns EXCEPT ![o] = "approved"]
    /\ UNCHANGED <<inv, redisVars, orders, tracking, procVars, last>>

reject_return(o) ==
    /\ returns[o] = "requested"
    /\ returns' = [returns EXCEPT ![o] = "rejected"]
    /\ UNCHANGED <<inv, redisVars, orders, tracking, procVars, last>>

mark_item_received(o) ==
    /\ returns[o] = "approved"
    /\ returns' = [returns EXCEPT ![o] = "received"]
    /\ UNCHANGED <<inv, redisVars, orders, tracking, procVars, last>>

\* mark_refunded, lines 207-239: the order is set to REFUNDED whatever its
\* status is.
mark_refunded(o) ==
    /\ returns[o] = "received"
    /\ returns' = [returns EXCEPT ![o] = "refunded"]
    /\ orders' = [orders EXCEPT ![o].status = "refunded"]
    /\ UNCHANGED <<inv, redisVars, tracking, procVars, last>>

\* ---- admin service (services/admin/main.py): raw SQL on the orders table.
AdminStamp(o, s) ==
    [o EXCEPT !.status = s,
              !.shipped_at = IF s = "shipped" THEN TRUE ELSE @,
              !.delivered_at = IF s = "delivered" THEN TRUE ELSE @,
              !.cancelled_at = IF s = "cancelled" THEN TRUE ELSE @]

\* Every statement that writes a status also inserts the order_tracking
\* row of that status, in the same transaction.
AdminUpdateStatus(o, s) ==
    /\ o \in DOMAIN orders
    /\ CanTrack(o)
    /\ orders' = [orders EXCEPT ![o] = AdminStamp(@, s)]
    /\ tracking' = add_tracking_entry(tracking, o, s)
    /\ UNCHANGED <<inv, redisVars, returns, procVars, last>>

\* bulk_update_orders for ids of existing orders.
AdminBulkUpdate(ids, s) ==
    /\ ids # {}
    /\ ids \subseteq DOMAIN orders
    /\ \A o \in ids : CanTrack(o)
    /\ orders' = [o \in DOMAIN orders |->
                    IF o \in ids THEN [orders[o] EXCEPT !.status = s] ELSE orders[o]]
    /\ tracking' = [o \in DOMAIN tracking |->
                      IF o \in ids THEN Append(tracking[o], s) ELSE tracking[o]]
    /\ UNCHANGED <<inv, redisVars, returns, procVars, last>>

StaffProcess(o) ==
    /\ o \in DOMAIN orders
    /\ IF orders[o].status # "pending"
         THEN UNCHANGED <<orders, tracking>>
         ELSE /\ CanTrack(o)
              /\ orders' = [orders EXCEPT ![o].status = "processing"]
              /\ tracking' = add_tracking_entry(tracking, o, "processing")
    /\ UNCHANGED <<inv, redisVars, returns, procVars, last>>

StaffShip(o) ==
    /\ o \in DOMAIN orders
    /\ IF orders[o].status # "processing"
         THEN UNCHANGED <<orders, tracking>>
         ELSE /\ CanTrack(o)
              /\ orders' = [orders EXCEPT ![o] =
                              [@ EXCEPT !.status = "shipped", !.shipped_at = TRUE]]
              /\ tracking' = add_tracking_entry(tracking, o, "shipped")
    /\ UNCHANGED <<inv, redisVars, returns, procVars, last>>

StaffBulkProcess(ids) ==
    /\ ids # {}
    /\ \A o \in ids : CanTrack(o)
    /\ orders' = [o \in DOMAIN orders |->
                    IF o \in ids /\ orders[o].status = "pending"
                    THEN [orders[o] EXCEPT !.status = "processing"] ELSE orders[o]]
    /\ tracking' = [o \in DOMAIN tracking |->
                      IF o \in ids /\ o \in DOMAIN orders /\ orders[o].status = "pending"
                      THEN Append(tracking[o], "processing") ELSE tracking[o]]
    /\ UNCHANGED <<inv, redisVars, returns, procVars, last>>

\* The order placed before the first status request: u1 bought one S1 and
\* one S3.
PlacedOrders == <<Order("u1", <<Item("P1", "S1", 1), Item("P2", "S3", 1)>>)>>

InitOrders ==
    /\ inv = [s \in SKUs |-> Row(IF s = "S2" THEN InitStock ELSE InitStock - 1, 0)]
    /\ carts = [u \in Shoppers |-> <<>>]
    /\ totals = [u \in Shoppers |-> EmptyTotals]
    /\ resv = [u \in Shoppers |-> [p \in Products |-> NoResv]]
    /\ orders = PlacedOrders
    /\ returns = [o \in OrderIds |-> "none"]
    /\ tracking = [o \in OrderIds |-> <<>>]
    /\ InitProcs

\* One request at a time (process 1) mixed with the admin and return calls.
NextOrders ==
    \/ \E o \in OrderIds, s \in Statuses : TransitionLoad(1, o, s)
    \/ TransitionWrite(1)
    \/ \E o \in OrderIds, u \in Shoppers : CancelLoad(1, o, u)
    \/ CancelAdjustRead(1)
    \/ CancelAdjustWrite(1)
    \/ CancelStatus(1)
    \/ \E o \in OrderIds, u \in Shoppers : AtRest(1) /\ create_return(o, u)
    \/ \E o \in OrderIds : AtRest(1) /\ approve_return(o)
    \/ \E o \in OrderIds : AtRest(1) /\ reject_return(o)
    \/ \E o \in OrderIds : AtRest(1) /\ mark_item_received(o)
    \/ \E o \in OrderIds : AtRest(1) /\ mark_refunded(o)
    \/ \E o \in OrderIds, s \in Statuses : AtRest(1) /\ AdminUpdateStatus(o, s)
    \/ \E ids \in SUBSET OrderIds, s \in Statuses : AtRest(1) /\ AdminBulkUpdate(ids, s)
    \/ \E o \in OrderIds : AtRest(1) /\ StaffProcess(o)
    \/ \E o \in OrderIds : AtRest(1) /\ StaffShip(o)
    \/ \E ids \in SUBSET OrderIds : AtRest(1) /\ StaffBulkProcess(ids)
    \/ Retire(1)

SpecOrders == InitOrders /\ [][NextOrders]_vars

\* ======================================================================
\* CartService.  The cart and the reservation keys live in Redis; the
\* ledger calls go through the request's session.  A query of a row that
\* the session has already loaded returns the loaded object unchanged
\* (identity map), also under with_for_update(); commit() expires it.
\* ======================================================================
CartQtys == 1..InitStock

\* The object a query for `sku` yields in the session of p.
Loaded(p, sku) == IF sess[p].sku = sku THEN sess[p].row ELSE inv[sku]

RECURSIVE FindLine(_, _, _)
\* next(item for item in cart["items"] if item["product_id"] == product_id):
\* the index of the first such line from position i on, 0 if there is none.
FindLine(items, product, i) ==
    IF i > Len(items) THEN 0
    ELSE IF items[i].product_id = product THEN i
    ELSE FindLine(items, product, i + 1)

RECURSIVE WithoutProduct(_, _)
WithoutProduct(items, product) ==
    IF items = <<>> THEN <<>>
    ELSE IF Head(items).product_id = product
         THEN WithoutProduct(Tail(items), product)
         ELSE <<Head(items)>> \o WithoutProduct(Tail(items), product)

\* add_to_cart, lines 111-127.
add_line(items, product, sku, quantity) ==
    LET i == FindLine(items, product, 1)
    IN IF i # 0 THEN [items EXCEPT ![i].quantity = @ + quantity]
       ELSE Append(items, Item(product, sku, quantity))

\* add_to_cart writing the reservation key before it checks the stock.
AddLoadKeyFirst(p, user, sku, quantity) ==
    /\ Begin(p, [NoReq EXCEPT !.op = "add", !.user = user, !.sku = sku,
                              !.product = ProductOf(sku), !.quantity = quantity])
    /\ sess' = [sess EXCEPT ![p] = [sku |-> sku, row |-> inv[sku]]]
    /\ resv' = [resv EXCEPT ![user][ProductOf(sku)] =
                   Reservation(sku, quantity)]
    /\ IF inv[sku].quantity - inv[sku].reserved_quantity < quantity
         THEN Finish(p, "insufficient")
         ELSE Goto(p, "add_reserve")
    /\ UNCHANGED <<inv, carts, totals, orderVars, lcart, idx, lord, pend, last>>

\* add_to_cart, lines 54-89: the inventory row is loaded without a lock and
\* the availability is checked on it.
AddLoad(p, user, sku, quantity) ==
    /\ Begin(p, [NoReq EXCEPT !.op = "add", !.user = user, !.sku = sku,
                              !.product = ProductOf(sku), !.quantity = quantity])
    /\ sess' = [sess EXCEPT ![p] = [sku |-> sku, row |-> inv[sku]]]
    /\ IF inv[sku].quantity - inv[sku].reserved_quantity < quantity
         THEN Finish(p, "insufficient")
         ELSE Goto(p, "add_reserve")
    /\ UNCHANGED <<inv, redisVars, orderVars, lcart, idx, lord, pend, last>>

\* add_to_cart, lines 91-98: reserve_stock on the request's session.
AddReserve(p) ==
    /\ pc[p] = "add_reserve"
    /\ LET row == Loaded(p, req[p].sku)
       IN IF reserve_rejects(row, req[p].quantity)
            THEN /\ Finish(p, "insufficient")
                 /\ UNCHANGED inv
            ELSE /\ inv' = [inv EXCEPT ![req[p].sku] =
                              Flush(@, row, reserve_stock(row, req[p].quantity))]
                 /\ Step(p, "add_redis")
    /\ sess' = [sess EXCEPT ![p] = Unloaded]
    /\ UNCHANGED <<redisVars, orderVars, req, lcart, idx, lord, pend, pre, nreq, last>>

\* add_to_cart, lines 100-109: the reservation key is written, the cart read.
AddRedis(p) ==
    /\ pc[p] = "add_redis"
    /\ resv' = [resv EXCEPT ![req[p].user][req[p].product] =
                   Reservation(req[p].sku, req[p].quantity)]
    /\ lcart' = [lcart EXCEPT ![p] = carts[req[p].user]]
    /\ Step(p, "add_save")
    /\ UNCHANGED <<inv, carts, totals, orderVars, req, idx, sess, lord, pend, pre, nreq, last>>

\* add_to_cart, lines 111-139.
AddSave(p) ==
    /\ pc[p] = "add_save"
    /\ carts' = [carts EXCEPT ![req[p].user] =
                    add_line(lcart[p], req[p].product, req[p].sku, req[p].quantity)]
    /\ totals' = [totals EXCEPT ![req[p].user] = recalculate(carts'[req[p].user], @)]
    /\ Finish(p, "ok")
    /\ UNCHANGED <<inv, resv, orderVars, req, lcart, idx, sess, lord, pend, pre, nreq, last>>

\* update_quantity, lines 148-162.
UpdLoad(p, user, product, new_quantity) ==
    /\ Begin(p, [NoReq EXCEPT !.op = "update", !.user = user, !.product = product,
                              !.quantity = new_quantity])
    /\ lcart' = [lcart EXCEPT ![p] = carts[user]]
    /\ idx' = [idx EXCEPT ![p] = FindLine(carts[user], product, 1)]
    /\ IF FindLine(carts[user], product, 1) = 0
         THEN Finish(p, "not_in_cart")
         ELSE Goto(p, "upd_ledger")
    /\ sess' = [sess EXCEPT ![p] = Unloaded]
    /\ UNCHANGED <<inv, redisVars, orderVars, lord, pend, last>>

\* update_quantity going on to the cart write after a refused reserve_stock.
UpdLedgerSwallow(p) ==
    /\ pc[p] = "upd_ledger"
    /\ LET item == lcart[p][idx[p]]
           quantity_diff == req[p].quantity - item.quantity
           row == Loaded(p, item.sku)
       IN IF quantity_diff > 0 /\ ~reserve_rejects(row, quantity_diff)
            THEN inv' = [inv EXCEPT ![item.sku] =
                            Flush(@, row, reserve_stock(row, quantity_diff))]
            ELSE IF quantity_diff < 0
            THEN inv' = [inv EXCEPT ![item.sku] =
                            Flush(@, row, release_stock(row, -quantity_diff))]
            ELSE UNCHANGED inv
    /\ Step(p, "upd_save")
    /\ UNCHANGED <<redisVars, orderVars, req, lcart, idx, sess, lord, pend, pre, nreq, last>>

\* update_quantity, lines 164-175.
UpdLedger(p) ==
    /\ pc[p] = "upd_ledger"
    /\ LET item == lcart[p][idx[p]]
           quantity_diff == req[p].quantity - item.quantity
           row == Loaded(p, item.sku)
       IN IF quantity_diff > 0
            THEN IF reserve_rejects(row, quantity_diff)
                   THEN /\ Finish(p, "insufficient")
                        /\ UNCHANGED inv
                   ELSE /\ inv' = [inv EXCEPT ![item.sku] =
                                     Flush(@, row, reserve_stock(row, quantity_diff))]
                        /\ Step(p, "upd_save")
            ELSE IF quantity_diff < 0
            THEN /\ inv' = [inv EXCEPT ![item.sku] =
                              Flush(@, row, release_stock(row, -quantity_diff))]
                 /\ Step(p, "upd_save")
            ELSE /\ UNCHANGED inv
                 /\ Step(p, "upd_save")
    /\ UNCHANGED <<redisVars, orderVars, req, lcart, idx, sess, lord, pend, pre, nreq, last>>

\* update_quantity, lines 177-189.
UpdSave(p) ==
    /\ pc[p] = "upd_save"
    /\ carts' = [carts EXCEPT ![req[p].user] =
                    [lcart[p] EXCEPT ![idx[p]].quantity = req[p].quantity]]
    /\ totals' = [totals EXCEPT ![req[p].user] = recalculate(carts'[req[p].user], @)]
    /\ Finish(p, "ok")
    /\ UNCHANGED <<inv, resv, orderVars, req, lcart, idx, sess, lord, pend, pre, nreq, last>>

\* remove_from_cart, lines 193-204.
RemLoad(p, user, product) ==
    /\ Begin(p, [NoReq EXCEPT !.op = "remove", !.user = user, !.product = product])
    /\ lcart' = [lcart EXCEPT ![p] = carts[user]]
    /\ idx' = [idx EXCEPT ![p] = FindLine(carts[user], product, 1)]
    /\ IF FindLine(carts[user], product, 1) = 0
         THEN Finish(p, "not_in_cart")
         ELSE Goto(p, "rem_release")
    /\ sess' = [sess EXCEPT ![p] = Unloaded]
    /\ UNCHANGED <<inv, redisVars, orderVars, lord, pend, last>>

\* remove_from_cart, lines 206-211.
RemRelease(p) ==
    /\ pc[p] = "rem_release"
    /\ LET item == lcart[p][idx[p]]
           row == Loaded(p, item.sku)
       IN inv' = [inv EXCEPT ![item.sku] =
                     Flush(@, row, release_stock(row, item.quantity))]
    /\ Step(p, "rem_save")
    /\ UNCHANGED <<redisVars, orderVars, req, lcart, idx, sess, lord, pend, pre, nreq, last>>

\* remove_from_cart, lines 213-232.
RemSave(p) ==
    /\ pc[p] = "rem_save"
    /\ resv' = [resv EXCEPT ![req[p].user][req[p].product] = NoResv]
    /\ carts' = [carts EXCEPT ![req[p].user] = WithoutProduct(lcart[p], req[p].product)]
    /\ totals' = [totals EXCEPT ![req[p].user] = recalculate(carts'[req[p].user], @)]
    /\ Finish(p, "ok")
    /\ UNCHANGED <<inv, orderVars, req, lcart, idx, sess, lord, pend, pre, nreq, last>>

\* clear_cart(user_id, release_reservations=True), line 237.
ClrLoad(p, user) ==
    /\ Begin(p, [NoReq EXCEPT !.op = "clear", !.user = user])
    /\ lcart' = [lcart EXCEPT ![p] = carts[user]]
    /\ idx' = [idx EXCEPT ![p] = 1]
    /\ Goto(p, IF carts[user] = <<>> THEN "clr_delete" ELSE "clr_release")
    /\ sess' = [sess EXCEPT ![p] = Unloaded]
    /\ UNCHANGED <<inv, redisVars, orderVars, lord, pend, last>>

\* clear_cart, lines 240-245, for item idx.
ClrRelease(p) ==
    /\ pc[p] = "clr_release"
    /\ LET item == lcart[p][idx[p]]
           row == Loaded(p, item.sku)
       IN inv' = [inv EXCEPT ![item.sku] =
                     Flush(@, row, release_stock(row, item.quantity))]
    /\ idx' = [idx EXCEPT ![p] = @ + 1]
    /\ Step(p, IF idx[p] = Len(lcart[p]) THEN "clr_delete" ELSE "clr_release")
    /\ UNCHANGED <<redisVars, orderVars, req, lcart, sess, lord, pend, pre, nreq, last>>

\* clear_cart, lines 247-258.
ClrDelete(p) ==
    /\ pc[p] = "clr_delete"
    /\ carts' = [carts EXCEPT ![req[p].user] = <<>>]
    /\ totals' = [totals EXCEPT ![req[p].user] = EmptyTotals]
    /\ Finish(p, "ok")
    /\ UNCHANGED <<inv, resv, orderVars, req, lcart, idx, sess, lord, pend, pre, nreq, last>>

\* Redis drops a reservation key when its TTL has elapsed.
ExpireReservation(user, product) ==
    /\ Live(resv[user][product])
    /\ resv' = [resv EXCEPT ![user][product] = NoResv]
    /\ UNCHANGED <<inv, carts, totals, orderVars, procVars, last>>

\* ======================================================================
\* OrderService.create_order, with CartService.confirm_cart_for_checkout.
\* ======================================================================
\* create_order, lines 70-77, and confirm_cart_for_checkout, line 279: the
\* cart is read.
CoLoad(p, user, promo) ==
    /\ Begin(p, [NoReq EXCEPT !.op = "create_order", !.user = user, !.promo = promo])
    /\ Len(orders) < MaxOrders
    /\ lcart' = [lcart EXCEPT ![p] = carts[user]]
    /\ idx' = [idx EXCEPT ![p] = 1]
    /\ sess' = [sess EXCEPT ![p] = Unloaded]
    /\ pend' = [pend EXCEPT ![p] = NoPend]
    /\ IF carts[user] = <<>>
         THEN Finish(p, "cart_empty")
         ELSE Goto(p, "co_check")
    /\ UNCHANGED <<inv, redisVars, orderVars, lord, last>>

\* confirm_cart_for_checkout passing over a line it could not reserve again.
CoCheckSkip(p) ==
    /\ pc[p] = "co_check"
    /\ LET item == lcart[p][idx[p]]
           user == req[p].user
           row == Loaded(p, item.sku)
           more == idx[p] < Len(lcart[p])
       IN /\ IF Live(resv[user][item.product_id]) \/ reserve_rejects(row, item.quantity)
               THEN UNCHANGED <<inv, resv>>
               ELSE /\ inv' = [inv EXCEPT ![item.sku] =
                                 Flush(@, row, reserve_stock(row, item.quantity))]
                    /\ resv' = [resv EXCEPT ![user][item.product_id] =
                                   Reservation(item.sku, item.quantity)]
          /\ idx' = [idx EXCEPT ![p] = IF more THEN @ + 1 ELSE 1]
          /\ Step(p, IF more THEN "co_check" ELSE "co_load")
    /\ UNCHANGED <<carts, totals, orderVars, req, lcart, sess, lord, pend, pre, nreq, last>>

\* confirm_cart_for_checkout, lines 281-300, for item idx: a line whose
\* reservation key is gone is reserved again for its full quantity.
CoCheck(p) ==
    /\ pc[p] = "co_check"
    /\ LET item == lcart[p][idx[p]]
           user == req[p].user
           row == Loaded(p, item.sku)
           more == idx[p] < Len(lcart[p])
       IN IF Live(resv[user][item.product_id])
            THEN /\ UNCHANGED <<inv, resv>>
                 /\ idx' = [idx EXCEPT ![p] = IF more THEN @ + 1 ELSE 1]
                 /\ Step(p, IF more THEN "co_check" ELSE "co_load")
            ELSE IF reserve_rejects(row, item.quantity)
            THEN /\ UNCHANGED <<inv, resv, idx>>
                 /\ Finish(p, "no_longer_available")
            ELSE /\ inv' = [inv EXCEPT ![item.sku] =
                              Flush(@, row, reserve_stock(row, item.quantity))]
                 /\ resv' = [resv EXCEPT ![user][item.product_id] =
                                Reservation(item.sku, item.quantity)]
                 /\ idx' = [idx EXCEPT ![p] = IF more THEN @ + 1 ELSE 1]
                 /\ Step(p, IF more THEN "co_check" ELSE "co_load")
    /\ UNCHANGED <<carts, totals, orderVars, req, lcart, sess, lord, pend, pre, nreq, last>>

\* create_order, lines 114-142: the Order is added and flushed (not yet
\* committed) before the first item; the item's inventory row is loaded
\* without a lock.
CoLoadInv(p) ==
    /\ pc[p] = "co_load"
    /\ LET item == lcart[p][idx[p]]
       IN sess' = [sess EXCEPT ![p] = [sku |-> item.sku, row |-> Loaded(p, item.sku)]]
    /\ Step(p, "co_confirm")
    /\ UNCHANGED <<inv, redisVars, orderVars, req, lcart, idx, lord, pend, pre, nreq, last>>

\* The rows of the running create_order that a commit makes durable: the
\* Order row with the first commit, and every OrderItem added so far.
Persist(os, pd, user, item) ==
    IF pd.id = 0 THEN Append(os, Order(user, <<item>>))
    ELSE [os EXCEPT ![pd.id].items = Append(@, item)]

\* create_order, lines 144-164, for item idx: the OrderItem is added and
\* confirm_reservation runs on the request's session; its commit() also
\* commits the Order and the OrderItems added so far.  `fails` is the
\* database raising in confirm_reservation (lock wait, lost connection):
\* the exception leaves create_order, the session is closed and what was
\* not committed is rolled back.
CoConfirm(p, fails) ==
    /\ pc[p] = "co_confirm"
    /\ LET item == lcart[p][idx[p]]
           row == Loaded(p, item.sku)
           more == idx[p] < Len(lcart[p])
       IN IF fails
            THEN /\ UNCHANGED <<inv, orders, pend, idx>>
                 /\ Finish(p, "confirm_failed")
            ELSE /\ inv' = [inv EXCEPT ![item.sku] =
                              Flush(@, row, confirm_reservation(row, item.quantity))]
                 /\ orders' = Persist(orders, pend[p], req[p].user, item)
                 /\ pend' = [pend EXCEPT ![p] =
                               [id |-> IF @.id = 0 THEN Len(orders) + 1 ELSE @.id,
                                items |-> Append(@.items, item)]]
                 /\ idx' = [idx EXCEPT ![p] = @ + 1]
                 /\ Step(p, IF more THEN "co_load" ELSE "co_finish")
    /\ sess' = [sess EXCEPT ![p] = Unloaded]
    /\ UNCHANGED <<redisVars, returns, tracking, req, lcart, lord, pre, nreq, last>>

\* create_order, lines 166-180: record_usage is called with a keyword it
\* does not have (code=) and raises TypeError when a promo code was given;
\* otherwise the final commit and clear_cart(release_reservations=False).
CoFinish(p) ==
    /\ pc[p] = "co_finish"
    /\ IF req[p].promo
         THEN /\ UNCHANGED <<carts, totals>>
              /\ Finish(p, "promo_usage_failed")
         ELSE /\ carts' = [carts EXCEPT ![req[p].user] = <<>>]
              /\ totals' = [totals EXCEPT ![req[p].user] = EmptyTotals]
              /\ Finish(p, "ok")
    /\ UNCHANGED <<inv, resv, orderVars, req, lcart, idx, sess, lord, pend, pre, nreq, last>>

\* ======================================================================
\* The store served one request at a time: cart operations, checkout and
\* reservation expiry, for both shoppers.
\* ======================================================================
Init == InitStore /\ InitProcs

CartStep(p) ==
    \/ \E u \in Shoppers, s \in SKUs, q \in CartQtys : AddLoad(p, u, s, q)
    \/ AddReserve(p)
    \/ AddRedis(p)
    \/ AddSave(p)
    \/ \E u \in Shoppers, pr \in Products, q \in CartQtys : UpdLoad(p, u, pr, q)
    \/ UpdLedger(p)
    \/ UpdSave(p)
    \/ \E u \in Shoppers, pr \in Products : RemLoad(p, u, pr)
    \/ RemRelease(p)
    \/ RemSave(p)
    \/ \E u \in Shoppers : ClrLoad(p, u)
    \/ ClrRelease(p)
    \/ ClrDelete(p)

CheckoutStep(p) ==
    \/ \E u \in Shoppers, promo \in BOOLEAN : CoLoad(p, u, promo)
    \/ CoCheck(p)
    \/ CoLoadInv(p)
    \/ \E fails \in BOOLEAN : CoConfirm(p, fails)
    \/ CoFinish(p)

Next ==
    \/ CartStep(1)
    \/ CheckoutStep(1)
    \/ \E u \in Shoppers, pr \in Products : AtRest(1) /\ ExpireReservation(u, pr)
    \/ Retire(1)

Spec == Init /\ [][Next]_vars

\* ======================================================================
\* Concurrent reservations: each process serves one call, either
\* reserve_stock on a session of its own or add_to_cart for its shopper.
\* ======================================================================
ShopperOf(p) == IF p = 1 THEN "u1" ELSE "u2"

\* reserve_stock, lines 95-112, on a fresh session: the row is read FOR
\* UPDATE and committed, so the call is one step.
ReserveCall(p, sku, quantity) ==
    /\ Begin(p, [NoReq EXCEPT !.op = "reserve", !.user = ShopperOf(p), !.sku = sku,
                              !.product = ProductOf(sku), !.quantity = quantity])
    /\ IF reserve_rejects(inv[sku], quantity)
         THEN /\ Finish(p, "insufficient")
              /\ UNCHANGED inv
         ELSE /\ inv' = [inv EXCEPT ![sku] = reserve_stock(inv[sku], quantity)]
              /\ Finish(p, "ok")
    /\ UNCHANGED <<redisVars, orderVars, lcart, idx, sess, lord, pend, last>>

NextReserve ==
    \/ \E p \in Procs, s \in SKUs, q \in CartQtys : ReserveCall(p, s, q)
    \/ \E p \in Procs, s \in SKUs, q \in CartQtys : AddLoad(p, ShopperOf(p), s, q)
    \/ \E p \in Procs : AddReserve(p)
    \/ \E p \in Procs : AddRedis(p)
    \/ \E p \in Procs : AddSave(p)

SpecReserve == Init /\ [][NextReserve]_vars

\* The quantity process p has been granted on sku s by reserve_stock.
GrantedTo(p, s) ==
    IF /\ req[p].op \in {"reserve", "add"}
       /\ req[p].sku = s
       /\ \/ pc[p] \in {"add_redis", "add_save"}
          \/ pc[p] = "done" /\ result[p] = "ok"
    THEN req[p].quantity ELSE 0

\* C1: the quantities granted on a SKU by concurrent Reserve calls, direct
\* or through AddItem by different shoppers, never add up to more than the
\* SKU's initial quantity, every call that is not granted returns
\* InsufficientStock, and reservedQuantity equals the sum granted.
C1_NoOversell ==
    /\ \A s \in SKUs :
          /\ GrantedTo(1, s) + GrantedTo(2, s) <= InitStock
          /\ inv[s].reserved_quantity = GrantedTo(1, s) + GrantedTo(2, s)
    /\ \A p \in Procs : pc[p] = "done" => result[p] \in {"ok", "insufficient"}

\* C2: every inventory record satisfies 0 <= reservedQuantity <= quantity.
C2_LedgerInvariant ==
    \A s \in SKUs : /\ 0 <= inv[s].reserved_quantity
                    /\ inv[s].reserved_quantity <= inv[s].quantity

\* C9: Release on an existing SKU succeeds, sets reservedQuantity to
\* max(0, reservedQuantity - qty), leaves quantity unchanged, and never
\* takes a non-negative reservedQuantity below 0.
C9_ReleaseClamps ==
    (last.op = "release" /\ last.sku \in SKUs) =>
        /\ last.outcome = "ok"
        /\ inv[last.sku].reserved_quantity
              = Max(0, last.before.reserved_quantity - last.quantity)
        /\ inv[last.sku].quantity = last.before.quantity
        /\ inv[last.sku].reserved_quantity >= Min(0, last.before.reserved_quantity)

\* A release of more than was held has been performed.
C9_Witness ==
    /\ last.op = "release" /\ last.sku \in SKUs
    /\ last.quantity > last.before.reserved_quantity
    /\ last.before.reserved_quantity > 0
    /\ inv[last.sku].reserved_quantity = 0

\* C10 as stated: Confirm on an existing SKU reduces quantity and reservedQuantity by
\* exactly qty and leaves available unchanged.
C10_ConfirmConservesAlways ==
    (last.op = "confirm" /\ last.sku \in SKUs) =>
        /\ last.outcome = "ok"
        /\ inv[last.sku].quantity + last.quantity = last.before.quantity
        /\ inv[last.sku].reserved_quantity + last.quantity
              = last.before.reserved_quantity
        /\ available_quantity(inv[last.sku]) = available_quantity(last.before)

\* C10 as amended: when neither counter is smaller than qty, Confirm on an
\* existing SKU returns OK, reduces quantity and reservedQuantity by exactly
\* qty and leaves available unchanged.
C10_ConfirmConserves ==
    (/\ last.op = "confirm" /\ last.sku \in SKUs
     /\ last.before.quantity >= last.quantity
     /\ last.before.reserved_quantity >= last.quantity) =>
        /\ last.outcome = "ok"
        /\ inv[last.sku].quantity + last.quantity = last.before.quantity
        /\ inv[last.sku].reserved_quantity + last.quantity
              = last.before.reserved_quantity
        /\ available_quantity(inv[last.sku]) = available_quantity(last.before)

\* A reserved unit has been confirmed.
C10_Witness ==
    /\ last.op = "confirm" /\ last.sku \in SKUs
    /\ last.quantity > 0
    /\ last.before.reserved_quantity >= last.quantity
    /\ last.before.quantity >= last.quantity
    /\ inv[last.sku].quantity < last.before.quantity

\* ----------------------------------------------------------------------
RECURSIVE LineQty(_, _)
\* The units of sku s on the lines of a cart or an order.
LineQty(items, s) ==
    IF items = <<>> THEN 0
    ELSE (IF Head(items).sku = s THEN Head(items).quantity ELSE 0)
         + LineQty(Tail(items), s)

\* C3: whenever no cart or checkout operation is in progress, the
\* reservedQuantity of every SKU equals the sum of the SKU's line quantities
\* over the carts of all shoppers.
C3_ReservationAccounting ==
    (\A p \in Procs : pc[p] \in {"idle", "done"}) =>
        \A s \in SKUs :
           inv[s].reserved_quantity = LineQty(carts["u1"], s) + LineQty(carts["u2"], s)

\* C4: when CreateOrder has failed on the Confirm of a line, the
\* reservedQuantity of every line confirmed before in the same call is back
\* at its value before the call, no Order is persisted and the cart is
\* unchanged.
C4_CheckoutAtomicity ==
    \A p \in Procs :
        (/\ pc[p] = "done" /\ req[p].op = "create_order"
         /\ result[p] = "confirm_failed") =>
            /\ \A i \in 1..Len(pend[p].items) :
                  inv[pend[p].items[i].sku].reserved_quantity
                     = pre[p][pend[p].items[i].sku].reserved_quantity
            /\ pend[p].id = 0
            /\ carts[req[p].user] = lcart[p]

\* C5: during CreateOrder no Order row or order item is committed before
\* every line of the cart has been confirmed, and a CreateOrder call that
\* has failed leaves no Order of that call persisted.
C5_PersistAfterConfirm ==
    \A p \in Procs :
        req[p].op = "create_order" =>
            /\ pend[p].id # 0 => idx[p] > Len(lcart[p])
            /\ (pc[p] = "done" /\ result[p] # "ok") => pend[p].id = 0

\* ----------------------------------------------------------------------
\* The transition table of the order lifecycle.
AllowedEdges ==
    {<<"pending", "confirmed">>, <<"pending", "cancelled">>,
     <<"confirmed", "processing">>, <<"confirmed", "cancelled">>,
     <<"processing", "shipped">>, <<"shipped", "delivered">>,
     <<"delivered", "returned">>, <<"returned", "refunded">>}

\* C6: Transition on an order in status `from` with new status `to`
\* succeeds and sets the status to `to` exactly when (from, to) is in the
\* table; for every other pair it returns InvalidTransition and leaves the
\* order's status and timestamps unchanged.
C6_TransitionGraph ==
    [][\A p \in Procs :
         (pc[p] = "tr_write" /\ pc'[p] = "done") =>
            LET o == req[p].order
            IN IF <<orders[o].status, req[p].status>> \in AllowedEdges
                 THEN result'[p] = "ok" /\ orders'[o].status = req[p].status
                 ELSE result'[p] = "invalid_transition" /\ orders'[o] = orders[o]]_vars

\* pending -> shipped has been rejected.
C6_Witness ==
    \E p \in Procs :
        /\ pc[p] = "done" /\ req[p].op = "transition"
        /\ req[p].status = "shipped" /\ lord[p].status = "pending"
        /\ result[p] = "invalid_transition"
        /\ orders[req[p].order].status = "pending"

\* C7: every change of an order's status, by any writer, follows an edge of
\* the table (so a cancelled or refunded order never changes again).
C7_LifecycleSafety ==
    [][\A o \in DOMAIN orders :
         orders'[o].status # orders[o].status =>
            <<orders[o].status, orders'[o].status>> \in AllowedEdges]_vars

\* C8: a Transition or cancel_order call that changes an order to cancelled
\* has increased the quantity of every line's SKU by the line's qty and has
\* left reservedQuantity unchanged.
C8_RestockOnCancel ==
    [][\A p \in Procs :
         (/\ pc[p] # "done" /\ pc'[p] = "done"
          /\ req[p].op \in {"transition", "cancel"}
          /\ orders[req[p].order].status # "cancelled"
          /\ orders'[req[p].order].status = "cancelled") =>
            \A s \in SKUs :
               /\ inv'[s].quantity
                     = pre[p][s].quantity + LineQty(orders[req[p].order].items, s)
               /\ inv'[s].reserved_quantity = pre[p][s].reserved_quantity]_vars

\* ----------------------------------------------------------------------
\* C11: on a record with 0 <= reservedQuantity <= quantity, AdjustStock is
\* rejected and leaves the record unchanged whenever quantity + delta <
\* reservedQuantity; otherwise it sets quantity to quantity + delta; it
\* never changes reservedQuantity.
C11_AdjustGuard ==
    (/\ last.op \in {"adjust", "staff_adjust"} /\ last.sku \in SKUs
     /\ 0 <= last.before.reserved_quantity
     /\ last.before.reserved_quantity <= last.before.quantity) =>
        /\ IF last.before.quantity + last.quantity < last.before.reserved_quantity
             THEN last.outcome # "ok" /\ inv[last.sku] = last.before
             ELSE /\ last.outcome = "ok"
                  /\ inv[last.sku].quantity = last.before.quantity + last.quantity
        /\ inv[last.sku].reserved_quantity = last.before.reserved_quantity

\* C12: an AddItem called when available < qty returns InsufficientStock
\* and leaves the cart, the reservation store and the ledger unchanged.
C12_AddFailureNoTrace ==
    [][\A p \in Procs :
         (/\ pc[p] = "idle" /\ pc'[p] # "idle" /\ req'[p].op = "add"
          /\ inv[req'[p].sku].quantity - inv[req'[p].sku].reserved_quantity
                < req'[p].quantity) =>
            /\ pc'[p] = "done" /\ result'[p] = "insufficient"
            /\ UNCHANGED <<inv, carts, resv>>]_vars

\* An AddItem for more than is available has been refused.
C12_Witness ==
    \E p \in Procs :
        /\ pc[p] = "done" /\ req[p].op = "add" /\ result[p] = "insufficient"
        /\ inv[req[p].sku].reserved_quantity > 0
        /\ inv[req[p].sku].quantity - inv[req[p].sku].reserved_quantity < req[p].quantity

\* C13: UpdateQuantity with delta = newQty - oldQty: when delta > 0 and
\* Reserve(sku, delta) fails, the call fails, the cart line keeps oldQty and
\* the ledger is unchanged; when delta < 0, Release(sku, -delta) is performed
\* and the call goes on; the cart is written only after the ledger call has
\* taken effect.
C13_UpdateFollowsLedger ==
    [][\A p \in Procs :
         /\ pc[p] = "upd_ledger" /\ pc'[p] # "upd_ledger" =>
               LET item == lcart[p][idx[p]]
                   delta == req[p].quantity - item.quantity
               IN /\ (delta > 0 /\ available_quantity(inv[item.sku]) < delta) =>
                        /\ pc'[p] = "done" /\ result'[p] = "insufficient"
                        /\ UNCHANGED <<inv, carts>>
                        /\ carts[req[p].user][idx[p]].quantity = item.quantity
                  /\ delta < 0 =>
                        /\ pc'[p] = "upd_save"
                        /\ inv'[item.sku] =
                              [inv[item.sku] EXCEPT
                                 !.reserved_quantity = Max(0, @ + delta)]
         /\ (req[p].op = "update" /\ carts' # carts) =>
               LET item == lcart[p][idx[p]]
                   delta == req[p].quantity - item.quantity
               IN /\ pc[p] = "upd_save"
                  /\ inv[item.sku].reserved_quantity =
                        Max(0, pre[p][item.sku].reserved_quantity + delta)
                  /\ carts'[req[p].user][idx[p]].quantity = req[p].quantity]_vars

\* An UpdateQuantity that asked for more than was available has failed and
\* the line still has its old quantity.
C13_Witness ==
    \E p \in Procs :
        /\ pc[p] = "done" /\ req[p].op = "update" /\ result[p] = "insufficient"
        /\ req[p].quantity > lcart[p][idx[p]].quantity
        /\ carts[req[p].user] = lcart[p]
        /\ inv = pre[p]

\* ======================================================================
\* update_quantity on a cart that holds two units of S1 while two more are
\* available.
\* ======================================================================
ScenarioCart == <<Item("P1", "S1", 2)>>
ScenarioQtys == 1..10

InitScenario ==
    /\ inv = [s \in SKUs |-> IF s = "S1" THEN Row(4, 2) ELSE Row(InitStock, 0)]
    /\ carts = [u \in Shoppers |-> IF u = "u1" THEN ScenarioCart ELSE <<>>]
    /\ totals = [u \in Shoppers |->
                   IF u = "u1" THEN recalculate(ScenarioCart, EmptyTotals)
                               ELSE EmptyTotals]
    /\ resv = [u \in Shoppers |-> [pr \in Products |->
                  IF u = "u1" /\ pr = "P1" THEN Reservation("S1", 2)
                                           ELSE NoResv]]
    /\ orders = <<>>
    /\ returns = [o \in OrderIds |-> "none"]
    /\ tracking = [o \in OrderIds |-> <<>>]
    /\ InitProcs

NextScenario ==
    \/ \E pr \in Products, q \in ScenarioQtys : UpdLoad(1, "u1", pr, q)
    \/ UpdLedger(1)
    \/ UpdSave(1)
    \/ Retire(1)

SpecScenario == InitScenario /\ [][NextScenario]_vars

\* An update_quantity of the S1 line that started from the scenario's state
\* has finished.
ScenarioUpdateDone(p) ==
    /\ pc[p] = "done" /\ req[p].op = "update" /\ req[p].product = "P1"
    /\ lcart[p] = ScenarioCart
    /\ pre[p]["S1"] = Row(4, 2)

\* C14 as stated: with a cart line {S1: qty 2} and only 2 more units of S1
\* available, UpdateQuantity(S1, 5) succeeds and raises reservedQuantity by
\* 3; UpdateQuantity(S1, 10) fails and the cart quantity stays at 2.
C14_ScenarioAsStated ==
    \A p \in Procs :
        ScenarioUpdateDone(p) =>
            /\ req[p].quantity = 5 =>
                  /\ result[p] = "ok"
                  /\ inv["S1"].reserved_quantity = pre[p]["S1"].reserved_quantity + 3
            /\ req[p].quantity = 10 =>
                  /\ result[p] = "insufficient"
                  /\ carts["u1"][1].quantity = 2

\* C14 as amended: with a cart line {S1: qty 2} and only 2 more units of S1
\* available, UpdateQuantity(S1, 4) succeeds and raises reservedQuantity by
\* 2; UpdateQuantity(S1, 5) and UpdateQuantity(S1, 10) fail, the cart
\* quantity stays at 2 and the ledger is unchanged.
C14_Scenario ==
    \A p \in Procs :
        ScenarioUpdateDone(p) =>
            /\ req[p].quantity = 4 =>
                  /\ result[p] = "ok"
                  /\ inv["S1"] = Row(4, 4)
                  /\ carts["u1"][1].quantity = 4
            /\ req[p].quantity \in {5, 10} =>
                  /\ result[p] = "insufficient"
                  /\ carts["u1"][1].quantity = 2
                  /\ inv = pre[p]

\* UpdateQuantity(S1, 5) has been refused in the scenario.
C14_Witness ==
    \E p \in Procs :
        /\ ScenarioUpdateDone(p)
        /\ req[p].quantity = 5
        /\ result[p] = "insufficient"
        /\ carts["u1"] = ScenarioCart

\* ----------------------------------------------------------------------
\* C15: RemoveItem of a line that is in the cart lowers reservedQuantity of
\* the line's SKU by the line's quantity, deletes the shopper's reservation
\* and removes the line from the cart; for a line that is not in the cart it
\* returns a not-in-cart error and changes neither cart, reservation nor
\* ledger.
C15_RemoveItem ==
    [][\A p \in Procs :
         /\ (pc[p] = "rem_save" /\ pc'[p] = "done") =>
               LET item == lcart[p][idx[p]]
               IN /\ result'[p] = "ok"
                  /\ inv'[item.sku].reserved_quantity
                        = pre[p][item.sku].reserved_quantity - item.quantity
                  /\ inv'[item.sku].quantity = pre[p][item.sku].quantity
                  /\ resv'[req[p].user][req[p].product] = NoResv
                  /\ FindLine(carts'[req[p].user], req[p].product, 1) = 0
         /\ (pc[p] = "idle" /\ pc'[p] # "idle" /\ req'[p].op = "remove"
               /\ FindLine(carts[req'[p].user], req'[p].product, 1) = 0) =>
               /\ pc'[p] = "done" /\ result'[p] = "not_in_cart"
               /\ UNCHANGED <<inv, carts, resv>>]_vars

\* C16: ConfirmForCheckout reserves again, for its full quantity, every
\* cart line whose reservation is missing; when that Reserve fails for a
\* line the checkout aborts with a no-longer-available error at that line,
\* and CreateOrder executes no Confirm and persists no Order.
C16_CheckoutAbort ==
    [][\A p \in Procs :
         (pc[p] = "co_check" /\ (pc'[p] # pc[p] \/ idx'[p] # idx[p])) =>
            LET item == lcart[p][idx[p]]
                user == req[p].user
                missing == ~Live(resv[user][item.product_id])
            IN /\ (missing /\ available_quantity(inv[item.sku]) >= item.quantity) =>
                     /\ inv'[item.sku].reserved_quantity
                           = inv[item.sku].reserved_quantity + item.quantity
                     /\ Live(resv'[user][item.product_id])
                     /\ resv'[user][item.product_id].sku = item.sku
                     /\ resv'[user][item.product_id].quantity = item.quantity
                     /\ pc'[p] \in {"co_check", "co_load"}
               /\ (missing /\ available_quantity(inv[item.sku]) < item.quantity) =>
                     /\ pc'[p] = "done" /\ result'[p] = "no_longer_available"
                     /\ lcart'[p][idx'[p]] = item
                     /\ pend'[p] = NoPend
                     /\ UNCHANGED <<inv, orders, carts>>
               /\ ~missing => UNCHANGED <<inv, resv>>]_vars

\* A checkout has been aborted at a line whose reservation had expired and
\* could not be reserved again; no order exists.
C16_Witness ==
    \E p \in Procs :
        /\ pc[p] = "done" /\ req[p].op = "create_order"
        /\ result[p] = "no_longer_available"
        /\ ~Live(resv[req[p].user][lcart[p][idx[p]].product_id])
        /\ pend[p] = NoPend
        /\ orders = <<>>

\* ======================================================================
\* One shopper, one SKU per product: carts, checkout without failures, and
\* expiry of reservation keys.  There is no sweeper in the code; the only
\* reader of a reservation key is confirm_cart_for_checkout.
\* ======================================================================
ExpirySkus == {"S1", "S3"}

NextExpiry ==
    \/ \E s \in ExpirySkus, q \in CartQtys : AddLoad(1, "u1", s, q)
    \/ AddReserve(1)
    \/ AddRedis(1)
    \/ AddSave(1)
    \/ \E pr \in Products : RemLoad(1, "u1", pr)
    \/ RemRelease(1)
    \/ RemSave(1)
    \/ ClrLoad(1, "u1")
    \/ ClrRelease(1)
    \/ ClrDelete(1)
    \/ CoLoad(1, "u1", FALSE)
    \/ CoCheck(1)
    \/ CoLoadInv(1)
    \/ CoConfirm(1, FALSE)
    \/ CoFinish(1)
    \/ \E pr \in Products : AtRest(1) /\ ExpireReservation("u1", pr)
    \/ Retire(1)

SpecExpiry == Init /\ [][NextExpiry]_vars

\* C17: every reservation that expires is released at the ledger, by the
\* sweeper or at the next ConfirmForCheckout, so no stock stays claimed by
\* an expired reservation: once no request runs, the carts are empty and no
\* reservation is left, no unit is reserved.
C17_ExpiredReleased ==
    (/\ \A p \in Procs : pc[p] = "idle"
     /\ \A u \in Shoppers : carts[u] = <<>>
     /\ \A u \in Shoppers, pr \in Products : ~Live(resv[u][pr])) =>
        \A s \in SKUs : inv[s].reserved_quantity = 0

\* ======================================================================
\* Reservation keys in time: one shopper adds S1 and checks out while the
\* clock advances.
\* ======================================================================
TickSteps == {5, 10, 120, 825}

\* d seconds pass: Redis counts down every key and a key whose time is up
\* is no longer found.
Tick(d) ==
    /\ \E u \in Shoppers, pr \in Products : resv[u][pr].sku # NoSku
    /\ \A u \in Shoppers, pr \in Products :
          resv[u][pr].sku # NoSku => resv[u][pr].age + d <= MaxAge
    /\ resv' = [u \in Shoppers |-> [pr \in Products |->
                  IF resv[u][pr].sku = NoSku THEN resv[u][pr]
                  ELSE [resv[u][pr] EXCEPT !.ttl = Max(0, @ - d), !.age = @ + d]]]
    /\ UNCHANGED <<inv, carts, totals, orderVars, procVars, last>>

NextTTL ==
    \/ \E q \in CartQtys : AddLoad(1, "u1", "S1", q)
    \/ AddReserve(1)
    \/ AddRedis(1)
    \/ AddSave(1)
    \/ CoLoad(1, "u1", FALSE)
    \/ CoCheck(1)
    \/ CoLoadInv(1)
    \/ CoConfirm(1, FALSE)
    \/ CoFinish(1)
    \/ \E d \in TickSteps : AtRest(1) /\ Tick(d)
    \/ Retire(1)

SpecTTL == Init /\ [][NextTTL]_vars

\* C18: a reservation written by AddItem or by the re-reservation of
\* ConfirmForCheckout is found for 900 seconds after it was written and not
\* afterwards: it is found 14 minutes after the write and not 16 minutes
\* after it.
C18_ReservationTTL ==
    \A u \in Shoppers, pr \in Products :
        resv[u][pr].sku # NoSku =>
            /\ Live(resv[u][pr]) <=> resv[u][pr].age < 900
            /\ resv[u][pr].age = 14 * 60 => Live(resv[u][pr])
            /\ resv[u][pr].age = 16 * 60 => ~Live(resv[u][pr])

\* ======================================================================
\* Two concurrent add_to_cart calls of the same shopper.
\* ======================================================================
NextSameShopper ==
    \/ \E p \in Procs, s \in SKUs, q \in CartQtys : AddLoad(p, "u1", s, q)
    \/ \E p \in Procs : AddReserve(p)
    \/ \E p \in Procs : AddRedis(p)
    \/ \E p \in Procs : AddSave(p)

SpecSameShopper == Init /\ [][NextSameShopper]_vars

\* C19: after two concurrent AddItem calls of one shopper for the same SKU
\* have finished, the units the two calls added to reservedQuantity equal
\* the quantity of the shopper's cart line for that SKU.
C19_NoDoubleReserve ==
    (/\ \A p \in Procs : pc[p] = "done" /\ req[p].op = "add"
     /\ req[1].sku = req[2].sku) =>
        inv[req[1].sku].reserved_quantity = LineQty(carts["u1"], req[1].sku)

\* ======================================================================
\* Two concurrent ledger calls on S1, each on a session of its own.
\* reserve_stock, release_stock and confirm_reservation hold the row lock
\* from their SELECT ... FOR UPDATE to their commit; adjust_stock reads the
\* row with a plain SELECT and writes it back later.
\* ======================================================================
LockArgs == {-1, 1, 2}
InitLockRow == Row(InitStock, 1)

\* release_stock, lines 114-122.
ReleaseCall(p, sku, quantity) ==
    /\ Begin(p, [NoReq EXCEPT !.op = "release", !.sku = sku, !.quantity = quantity])
    /\ inv' = [inv EXCEPT ![sku] = release_stock(inv[sku], quantity)]
    /\ Finish(p, "ok")
    /\ UNCHANGED <<redisVars, orderVars, lcart, idx, sess, lord, pend, last>>

\* confirm_reservation, lines 124-138.
ConfirmCall(p, sku, quantity) ==
    /\ Begin(p, [NoReq EXCEPT !.op = "confirm", !.sku = sku, !.quantity = quantity])
    /\ inv' = [inv EXCEPT ![sku] = confirm_reservation(inv[sku], quantity)]
    /\ Finish(p, "ok")
    /\ UNCHANGED <<redisVars, orderVars, lcart, idx, sess, lord, pend, last>>

\* adjust_stock, lines 76-81: the row is read without a lock.
AdjustRead(p, sku, adjustment) ==
    /\ Begin(p, [NoReq EXCEPT !.op = "adjust", !.sku = sku, !.quantity = adjustment])
    /\ sess' = [sess EXCEPT ![p] = [sku |-> sku, row |-> inv[sku]]]
    /\ Goto(p, "adj_write")
    /\ UNCHANGED <<inv, redisVars, orderVars, lcart, idx, lord, pend, last>>

\* adjust_stock, lines 83-93.
AdjustWrite(p) ==
    /\ pc[p] = "adj_write"
    /\ LET row == sess[p].row
       IN IF adjust_rejects(row, req[p].quantity)
            THEN /\ UNCHANGED inv
                 /\ Finish(p, "negative")
            ELSE /\ inv' = [inv EXCEPT ![req[p].sku] =
                               Flush(@, row, adjust_stock(row, req[p].quantity))]
                 /\ Finish(p, "ok")
    /\ sess' = [sess EXCEPT ![p] = Unloaded]
    /\ UNCHANGED <<redisVars, orderVars, req, lcart, idx, lord, pend, pre, nreq, last>>

InitLocking ==
    /\ inv = [s \in SKUs |-> InitLockRow]
    /\ carts = [u \in Shoppers |-> <<>>]
    /\ totals = [u \in Shoppers |-> EmptyTotals]
    /\ resv = [u \in Shoppers |-> [pr \in Products |-> NoResv]]
    /\ orders = <<>>
    /\ returns = [o \in OrderIds |-> "none"]
    /\ tracking = [o \in OrderIds |-> <<>>]
    /\ InitProcs

NextLocking ==
    \/ \E p \in Procs, q \in CartQtys : ReserveCall(p, "S1", q)
    \/ \E p \in Procs, q \in CartQtys : ReleaseCall(p, "S1", q)
    \/ \E p \in Procs, q \in CartQtys : ConfirmCall(p, "S1", q)
    \/ \E p \in Procs, a \in LockArgs : AdjustRead(p, "S1", a)
    \/ \E p \in Procs : AdjustWrite(p)

SpecLocking == InitLocking /\ [][NextLocking]_vars

\* The record a ledger call leaves when it runs alone on rec.
Alone(r, rec) ==
    CASE r.op = "reserve" ->
           IF reserve_rejects(rec, r.quantity) THEN rec
           ELSE reserve_stock(rec, r.quantity)
      [] r.op = "release" -> release_stock(rec, r.quantity)
      [] r.op = "confirm" -> confirm_reservation(rec, r.quantity)
      [] r.op = "adjust" ->
           IF adjust_rejects(rec, r.quantity) THEN rec
           ELSE adjust_stock(rec, r.quantity)

\* C20: the mutating ledger calls on a SKU exclude one another: after two
\* concurrent calls the record is the one that some serial execution of the
\* two calls leaves.
C20_Serializable ==
    (\A p \in Procs : pc[p] = "done") =>
        \/ inv["S1"] = Alone(req[2], Alone(req[1], InitLockRow))
        \/ inv["S1"] = Alone(req[1], Alone(req[2], InitLockRow))

\* ======================================================================
\* C21: after a successful CreateOrder of a shopper the new Order has
\* status pending, the shopper's cart is empty and no reservation entry of
\* that shopper remains in the reservation store.
C21_CreateOrderPost ==
    [][\A p \in Procs :
         (pc[p] = "co_finish" /\ pc'[p] = "done" /\ result'[p] = "ok") =>
            /\ pend[p].id \in 1..Len(orders')
            /\ orders'[pend[p].id].status = "pending"
            /\ orders'[pend[p].id].user_id = req[p].user
            /\ carts'[req[p].user] = <<>>
            /\ \A pr \in Products : ~Live(resv'[req[p].user][pr])]_vars

\* ----------------------------------------------------------------------
\* C22: every successful change of an order's status by Transition or by
\* cancel_order appends exactly one tracking entry carrying the new
\* status, and no step of any operation modifies or removes a tracking
\* entry already recorded.
C22_AuditTrail ==
    [][/\ \A p \in Procs :
            (/\ pc[p] # "done" /\ pc'[p] = "done" /\ result'[p] = "ok"
             /\ req[p].op \in {"transition", "cancel"}
             /\ orders'[req[p].order].status # orders[req[p].order].status) =>
                tracking'[req[p].order]
                   = Append(tracking[req[p].order], orders'[req[p].order].status)
       /\ \A o \in DOMAIN tracking :
            /\ Len(tracking'[o]) >= Len(tracking[o])
            /\ SubSeq(tracking'[o], 1, Len(tracking[o])) = tracking[o]]_vars

\* ----------------------------------------------------------------------
\* C23: every Confirm(sku, qty) that CreateOrder issues finds at the ledger
\* reservedQuantity >= qty and quantity >= qty, so that confirm_reservation
\* never clamps a counter to 0.
C23_ConfirmNeverClamps ==
    [][\A p \in Procs :
         (pc[p] = "co_confirm" /\ pc'[p] \in {"co_load", "co_finish"}) =>
            LET item == lcart[p][idx[p]]
            IN /\ inv[item.sku].reserved_quantity >= item.quantity
               /\ inv[item.sku].quantity >= item.quantity
               /\ inv'[item.sku] = Row(inv[item.sku].quantity - item.quantity,
                                       inv[item.sku].reserved_quantity - item.quantity)]_vars

\* ======================================================================
\* One shopper using every CartService method that saves the cart, in any
\* order; apply_promotion receives the discount its caller computed.
\* ======================================================================
Discounts == {1, 5}

\* apply_promotion, lines 260-272: get_cart, set promo_code, discount and
\* total, save the cart.
ApplyPromotion(user, discount_amount) ==
    /\ totals' = [totals EXCEPT ![user] = apply_promotion(@, "code", discount_amount)]
    /\ UNCHANGED <<inv, carts, resv, orderVars, procVars, last>>

NextTotals ==
    \/ \E s \in SKUs, q \in CartQtys : AddLoad(1, "u1", s, q)
    \/ AddReserve(1)
    \/ AddRedis(1)
    \/ AddSave(1)
    \/ \E pr \in Products, q \in CartQtys : UpdLoad(1, "u1", pr, q)
    \/ UpdLedger(1)
    \/ UpdSave(1)
    \/ \E pr \in Products : RemLoad(1, "u1", pr)
    \/ RemRelease(1)
    \/ RemSave(1)
    \/ \E d \in Discounts : AtRest(1) /\ ApplyPromotion("u1", d)
    \/ Retire(1)

SpecTotals == Init /\ [][NextTotals]_vars

\* C24: after every CartService operation that saves the cart, the stored
\* cart has subtotal = sum of price x quantity over its lines and
\* total = subtotal - discount.
C24_CartTotals ==
    \A u \in Shoppers :
        /\ totals[u].subtotal = Subtotal(carts[u])
        /\ totals[u].total = totals[u].subtotal - totals[u].discount

\* ----------------------------------------------------------------------
\* Units of SKU s in the persisted orders that are not cancelled.
RECURSIVE OrderedQty(_, _)
OrderedQty(os, s) ==
    IF os = <<>> THEN 0
    ELSE (IF Head(os).status = "cancelled" THEN 0 ELSE LineQty(Head(os).items, s))
         + OrderedQty(Tail(os), s)

\* C25: for every SKU the quantity in persisted orders that are not
\* cancelled never exceeds the units ever stocked for it (no restock
\* happens in this specification, so that is the initial quantity).
C25_NoOversoldOrders ==
    \A s \in SKUs : OrderedQty(orders, s) <= InitStock

\* ======================================================================
\* Shopper u2 has put one S1 in the cart and does nothing more; shopper u1
\* uses the cart and checks out.
\* ======================================================================
OwnerCart == <<Item("P1", "S1", 1)>>

InitOwnership ==
    /\ inv = [s \in SKUs |-> IF s = "S1" THEN Row(InitStock, 1) ELSE Row(InitStock, 0)]
    /\ carts = [u \in Shoppers |-> IF u = "u2" THEN OwnerCart ELSE <<>>]
    /\ totals = [u \in Shoppers |->
                   IF u = "u2" THEN recalculate(OwnerCart, EmptyTotals)
                               ELSE EmptyTotals]
    /\ resv = [u \in Shoppers |-> [pr \in Products |->
                  IF u = "u2" /\ pr = "P1" THEN Reservation("S1", 1) ELSE NoResv]]
    /\ orders = <<>>
    /\ returns = [o \in OrderIds |-> "none"]
    /\ tracking = [o \in OrderIds |-> <<>>]
    /\ InitProcs

NextOwnership ==
    \/ \E s \in SKUs, q \in CartQtys : AddLoad(1, "u1", s, q)
    \/ AddReserve(1)
    \/ AddRedis(1)
    \/ AddSave(1)
    \/ \E pr \in Products, q \in CartQtys : UpdLoad(1, "u1", pr, q)
    \/ UpdLedger(1)
    \/ UpdSave(1)
    \/ \E pr \in Products : RemLoad(1, "u1", pr)
    \/ RemRelease(1)
    \/ RemSave(1)
    \/ ClrLoad(1, "u1")
    \/ ClrRelease(1)
    \/ ClrDelete(1)
    \/ \E promo \in BOOLEAN : CoLoad(1, "u1", promo)
    \/ CoCheck(1)
    \/ CoLoadInv(1)
    \/ \E fails \in BOOLEAN : CoConfirm(1, fails)
    \/ CoFinish(1)
    \/ \E pr \in Products : AtRest(1) /\ ExpireReservation("u1", pr)
    \/ Retire(1)

SpecOwnership == InitOwnership /\ [][NextOwnership]_vars

\* C26: while u2's cart holds its reserved line and u2 performs no
\* operation, the ledger's reservedQuantity of every SKU stays at least the
\* quantity u2's cart holds of it, whatever cart and checkout calls u1
\* makes.
C26_ReservationOwned ==
    \A s \in SKUs :
        Live(resv["u2"][ProductOf(s)]) =>
            inv[s].reserved_quantity >= LineQty(carts["u2"], s)

\* ======================================================================
\* Two create_order calls of shopper u1, each in a session of its own, on a
\* cart of one reserved line; no promo code, no database failure.
\* ======================================================================
DuplicateCart == <<Item("P1", "S1", 1)>>

InitDuplicate ==
    /\ inv = [s \in SKUs |-> IF s = "S1" THEN Row(InitStock, 1) ELSE Row(InitStock, 0)]
    /\ carts = [u \in Shoppers |-> IF u = "u1" THEN DuplicateCart ELSE <<>>]
    /\ totals = [u \in Shoppers |->
                   IF u = "u1" THEN recalculate(DuplicateCart, EmptyTotals)
                               ELSE EmptyTotals]
    /\ resv = [u \in Shoppers |-> [pr \in Products |->
                  IF u = "u1" /\ pr = "P1" THEN Reservation("S1", 1) ELSE NoResv]]
    /\ orders = <<>>
    /\ returns = [o \in OrderIds |-> "none"]
    /\ tracking = [o \in OrderIds |-> <<>>]
    /\ InitProcs

NextDuplicate ==
    \/ \E p \in Procs : CoLoad(p, "u1", FALSE)
    \/ \E p \in Procs : CoCheck(p)
    \/ \E p \in Procs : CoLoadInv(p)
    \/ \E p \in Procs : CoConfirm(p, FALSE)
    \/ \E p \in Procs : CoFinish(p)
    \/ \E p \in Procs : Retire(p)

SpecDuplicate == InitDuplicate /\ [][NextDuplicate]_vars

\* C27: whatever the interleaving of two create_order calls of one shopper
\* on the same cart, at most one Order is persisted and the cart line is
\* confirmed at most once (its quantity is deducted once from the stock).
C27_DuplicateCheckout ==
    /\ Len(orders) <= 1
    /\ \A s \in SKUs : inv[s].quantity >= InitStock - LineQty(DuplicateCart, s)

\* ======================================================================
\* One shopper, one request at a time: add_to_cart on an empty cart, then
\* create_order, then cancel_order of the order it created.  The
\* reservation key may expire between the requests.
\* ======================================================================
NextRoundTrip ==
    \/ \E s \in SKUs, q \in CartQtys : nreq = 0 /\ AddLoad(1, "u1", s, q)
    \/ AddReserve(1)
    \/ AddRedis(1)
    \/ AddSave(1)
    \/ nreq = 1 /\ CoLoad(1, "u1", FALSE)
    \/ CoCheck(1)
    \/ CoLoadInv(1)
    \/ CoConfirm(1, FALSE)
    \/ CoFinish(1)
    \/ \E o \in OrderIds : nreq = 2 /\ CancelLoad(1, o, "u1")
    \/ CancelAdjustRead(1)
    \/ CancelAdjustWrite(1)
    \/ CancelStatus(1)
    \/ \E pr \in Products : AtRest(1) /\ ExpireReservation("u1", pr)
    \/ Retire(1)

SpecRoundTrip == Init /\ [][NextRoundTrip]_vars

\* C28: for a single shopper without concurrent activity, AddItem(sku, q)
\* followed by a successful CreateOrder and the cancellation of that order
\* returns quantity and reservedQuantity of the SKU to the values they had
\* before the AddItem (here the initial stock, nothing reserved).
C28_RoundTrip ==
    (/\ pc[1] = "done" /\ req[1].op = "cancel" /\ result[1] = "ok"
     /\ orders[req[1].order].status = "cancelled") =>
        \A s \in SKUs : inv[s] = Row(InitStock, 0)

\* ======================================================================
\* cancel_order calls on the placed order, each in a session of its own,
\* in any order and interleaving.
\* ======================================================================
NextCancel ==
    \/ \E p \in Procs, o \in OrderIds, u \in Shoppers : CancelLoad(p, o, u)
    \/ \E p \in Procs : CancelAdjustRead(p)
    \/ \E p \in Procs : CancelAdjustWrite(p)
    \/ \E p \in Procs : CancelStatus(p)
    \/ \E p \in Procs : Retire(p)

SpecCancel == InitOrders /\ [][NextCancel]_vars

\* C29: over any sequence or interleaving of cancel_order calls on an
\* order, the quantity of each line is never added back more than once, is
\* added back exactly once when the calls have ended and the order is
\* cancelled, and the stock is untouched when every call was rejected.
C29_RestockOnce ==
    \A s \in SKUs :
        LET placed == LineQty(PlacedOrders[1].items, s)
            atRest == \A p \in Procs : pc[p] \in {"idle", "done"}
        IN /\ inv[s].quantity <= InitStock
           /\ (atRest /\ orders[1].status = "cancelled") => inv[s].quantity = InitStock
           /\ (atRest /\ orders[1].status # "cancelled") =>
                 inv[s].quantity = InitStock - placed

\* ======================================================================
\* One shopper adding S1 to the cart and changing the line's quantity while
\* the clock advances.
\* ======================================================================
NextRecord ==
    \/ \E q \in CartQtys : AddLoad(1, "u1", "S1", q)
    \/ AddReserve(1)
    \/ AddRedis(1)
    \/ AddSave(1)
    \/ \E q \in CartQtys : UpdLoad(1, "u1", "P1", q)
    \/ UpdLedger(1)
    \/ UpdSave(1)
    \/ \E d \in TickSteps : AtRest(1) /\ Tick(d)
    \/ Retire(1)

SpecRecord == Init /\ [][NextRecord]_vars

\* C30: when an AddItem or an UpdateQuantity of a shopper has succeeded and
\* the shopper's reservation for the product is unexpired, the reservation
\* record holds the quantity of the cart line and its expiry clock has just
\* been restarted.
C30_RecordTracksLine ==
    [][\A p \in Procs :
         (/\ pc[p] # "done" /\ pc'[p] = "done" /\ result'[p] = "ok"
          /\ req[p].op \in {"add", "update"}
          /\ Live(resv'[req[p].user][req[p].product])) =>
            LET line == FindLine(carts'[req[p].user], req[p].product, 1)
                record == resv'[req[p].user][req[p].product]
            IN /\ line # 0
               /\ record.quantity = carts'[req[p].user][line].quantity
               /\ record.age = 0
               /\ record.ttl = reservation_expires_in]_vars

====
